---- MODULE Spec2Model ----
(***************************************************************************)
(* Model of the ReIDTracker of utils/tracker.py inside the frame loop of   *)
(* main.py: the track table, the next-identity counter and the update      *)
(* operation with its three branches (no detections, no live tracks,       *)
(* general case), the colour histogram fingerprint and its correlation,    *)
(* the hash set that step 4 of update iterates, and the capture, the       *)
(* writer and the output video of main.                                    *)
(* Spec feeds update short detection lists; SpecCrowd feeds it frames with *)
(* as many detections as a set's first table has slots, or more.           *)
(***************************************************************************)
EXTENDS Integers, Sequences, FiniteSets, TLC

\* ------------------------------------------------------------------------
\* Bounds of the model
\* ------------------------------------------------------------------------
MaxDets == 2     \* detections per update call
MaxIds == 3      \* update is called while next_player_id is below it
MaxCrowd == 9    \* detections per update call in the crowded frames

\* ------------------------------------------------------------------------
\* Program constants
\* ------------------------------------------------------------------------
HistBins == 16       \* calcHist(..., [16], ...)
HueRange == 180      \* calcHist(..., [0, 180])
NormMax == 255       \* cv2.normalize(hist, hist, 0, 255, NORM_MINMAX)

\* CPython's set, which step 4 of update iterates
PySet_MINSIZE == 8   \* slots of a new set
LINEAR_PROBES == 9   \* slots probed after the first before jumping
PERTURB_SHIFT == 5

\* Constructor arguments tried: <<max_disappeared, max_distance>>.
ConstructorArgs == {<<0, 0>>, <<0, 50>>, <<1, 50>>}

\* The crop frame[y1:y2, x1:x2] of a bounding box, as the hue values of its
\* pixels after cvtColor(BGR2HSV).
Red == <<0>>
Orange == <<0, 0, 0, 0, 0, 12, 12>>
Green == <<60>>
Empty == <<>>            \* a degenerate box

Crops == {Red, Orange, Green, Empty}

\* The detections main.py hands to update: the box (by its crop) and the
\* centroid.
Detection ==
    { [bbox |-> Red,    centroid |-> <<100, 100>>],
      [bbox |-> Orange, centroid |-> <<110, 100>>],
      [bbox |-> Green,  centroid |-> <<110, 100>>],
      [bbox |-> Red,    centroid |-> <<200, 100>>],
      [bbox |-> Empty,  centroid |-> <<100, 100>>] }

DetectionLists == UNION {[1..n -> Detection] : n \in 0..MaxDets}

NonEmptyLists == DetectionLists \ {<<>>}

\* ------------------------------------------------------------------------
\* Arithmetic helpers
\* ------------------------------------------------------------------------
RECURSIVE SumTo(_, _)
SumTo(s, n) == IF n = 0 THEN 0 ELSE s[n] + SumTo(s, n - 1)

Sum(s) == SumTo(s, Len(s))

Abs(x) == IF x < 0 THEN 0 - x ELSE x

RECURSIVE Gcd(_, _)
Gcd(a, b) == IF b = 0 THEN a ELSE Gcd(b, a % b)

RECURSIVE GcdTo(_, _)
GcdTo(s, n) == IF n = 0 THEN 0 ELSE Gcd(Abs(s[n]), GcdTo(s, n - 1))

SeqMin(s) == CHOOSE m \in {s[i] : i \in 1..Len(s)} : \A i \in 1..Len(s) : m <= s[i]

SeqMax(s) == CHOOSE m \in {s[i] : i \in 1..Len(s)} : \A i \in 1..Len(s) : m >= s[i]

\* ------------------------------------------------------------------------
\* The colour fingerprint: _calculate_histogram
\* ------------------------------------------------------------------------
\* cv2.error raised by cvtColor on an empty image.
InvalidRegion == <<-1>>

\* cv2.calcHist over the hue channel: 16 uniform bins over [0, 180).
calcHist(img) ==
    [b \in 1..HistBins |->
        Cardinality({k \in 1..Len(img) : (img[k] * HistBins) \div HueRange = b - 1})]

\* cv2.normalize(..., 0, 255, NORM_MINMAX): a constant histogram maps to 0.
normalize(hist) ==
    LET lo == SeqMin(hist)
        hi == SeqMax(hist)
    IN  [b \in 1..Len(hist) |->
            IF hi = lo THEN 0 ELSE ((hist[b] - lo) * NormMax) \div (hi - lo)]

calculate_histogram(bbox) ==
    IF Len(bbox) = 0 THEN InvalidRegion ELSE normalize(calcHist(bbox))

\* The fingerprint of every crop, computed once.
HistOf == [c \in Crops |-> calculate_histogram(c)]

\* cv2.compareHist(h1, h2, HISTCMP_CORREL) > 0.5.  The correlation is
\* num / sqrt(d1 * d2) over the deviations from the mean, and 1 when the
\* denominator vanishes.  The deviations are scaled by the bin count and
\* divided by their common factor (the correlation does not depend on a
\* positive scale), so that the products stay within 32 bits.
Deviations(h) ==
    LET d == [b \in 1..Len(h) |-> Len(h) * h[b] - Sum(h)]
        g == GcdTo(d, Len(d))
    IN  IF g = 0 THEN d ELSE [b \in 1..Len(d) |-> d[b] \div g]

compareHistAbove(h1, h2) ==
    LET a == Deviations(h1)
        b == Deviations(h2)
        num == Sum([k \in 1..Len(a) |-> a[k] * b[k]])
        d1 == Sum([k \in 1..Len(a) |-> a[k] * a[k]])
        d2 == Sum([k \in 1..Len(b) |-> b[k] * b[k]])
    IN  IF d1 * d2 = 0 THEN TRUE
        ELSE num > 0 /\ 4 * num * num > d1 * d2

ValidHists == {HistOf[c] : c \in Crops} \ {InvalidRegion}

\* hist_sim_matrix[i, j] > 0.5 for every pair of fingerprints, computed once.
hist_sim_above == [h1 \in ValidHists |-> [h2 \in ValidHists |-> compareHistAbove(h1, h2)]]

\* cdist: the Euclidean distance, kept as its square.
SqDist(p, q) == (p[1] - q[1]) * (p[1] - q[1]) + (p[2] - q[2]) * (p[2] - q[2])

\* ------------------------------------------------------------------------
\* The track table: a dict in insertion order, as a sequence of entries
\* ------------------------------------------------------------------------
\* The keys in the reverse of the insertion order.
Keys_reversed(tp) == [i \in 1..Len(tp) |-> tp[Len(tp) + 1 - i].id]

\* list(d.keys()): the keys in insertion order.
Keys(tp) == [i \in 1..Len(tp) |-> tp[i].id]

HasKey(tp, k) == \E i \in 1..Len(tp) : tp[i].id = k

Get(tp, k) == tp[CHOOSE i \in 1..Len(tp) : tp[i].id = k]

\* d[k] = v: an existing key keeps its place, a new key goes last.
Put(tp, k, v) ==
    IF HasKey(tp, k)
    THEN [i \in 1..Len(tp) |-> IF tp[i].id = k THEN v ELSE tp[i]]
    ELSE Append(tp, v)

\* del d[k]
Del(tp, k) == SelectSeq(tp, LAMBDA e : e.id # k)

\* The tracker while update runs: its two fields, and a log of what the call
\* did (registered: <<identity, detection>>, matched: <<identity, detection>>,
\* deregistered: identities, raised: an exception left the call).
Running(tp, nid) ==
    [tracked_players |-> tp, next_player_id |-> nid,
     registered |-> <<>>, matched |-> <<>>, deregistered |-> <<>>,
     raised |-> FALSE]

\* ------------------------------------------------------------------------
\* register, deregister
\* ------------------------------------------------------------------------
\* register that forgets "self.next_player_id += 1".
register_no_increment(st, centroid, histogram, idx) ==
    LET player_id == st.next_player_id
    IN  [st EXCEPT
            !.tracked_players =
                Put(@, player_id, [id |-> player_id, centroid |-> centroid,
                                   hist |-> histogram, disappeared |-> 0]),
            !.registered = Append(@, <<player_id, idx>>)]

\* register that numbers a player by the size of the table.
register_by_size(st, centroid, histogram, idx) ==
    LET player_id == Len(st.tracked_players)
    IN  [st EXCEPT
            !.tracked_players =
                Put(@, player_id, [id |-> player_id, centroid |-> centroid,
                                   hist |-> histogram, disappeared |-> 0]),
            !.next_player_id = player_id + 1,
            !.registered = Append(@, <<player_id, idx>>)]

\* idx is the detection the centroid and histogram come from (for the log).
register(st, centroid, histogram, idx) ==
    LET player_id == st.next_player_id
    IN  [st EXCEPT
            !.tracked_players =
                Put(@, player_id, [id |-> player_id, centroid |-> centroid,
                                   hist |-> histogram, disappeared |-> 0]),
            !.next_player_id = @ + 1,
            !.registered = Append(@, <<player_id, idx>>)]

\* deregister that forgets "del self.tracked_players[player_id]".
deregister_keeps_entry(st, player_id) ==
    [st EXCEPT !.deregistered = Append(@, player_id)]

deregister(st, player_id) ==
    [st EXCEPT !.tracked_players = Del(@, player_id),
               !.deregistered = Append(@, player_id)]

\* The threshold with >= in place of >.
Expired_at_threshold(disappeared, max_disappeared) == disappeared >= max_disappeared

\* disappeared > max_disappeared
Expired(disappeared, max_disappeared) == disappeared > max_disappeared

\* disappear that forgets "disappeared += 1".
disappear_no_increment(st, player_id, max_disappeared) ==
    LET e == Get(st.tracked_players, player_id)
    IN  IF Expired(e.disappeared, max_disappeared)
        THEN deregister(st, player_id) ELSE st

\* disappeared += 1, then deregister when it exceeds max_disappeared.
disappear(st, player_id, max_disappeared) ==
    LET e == Get(st.tracked_players, player_id)
        n == e.disappeared + 1
        st1 == [st EXCEPT !.tracked_players =
                    Put(@, player_id, [e EXCEPT !.disappeared = n])]
    IN  IF Expired(n, max_disappeared) THEN deregister(st1, player_id) ELSE st1

\* ------------------------------------------------------------------------
\* update
\* ------------------------------------------------------------------------
\* Branch 1, len(detections) == 0: every key of the table at the start.
RECURSIVE update_no_detections(_, _, _, _)
update_no_detections(st, ids, i, max_disappeared) ==
    IF i > Len(ids) THEN st
    ELSE update_no_detections(disappear(st, ids[i], max_disappeared),
                              ids, i + 1, max_disappeared)

\* Branch 2, len(tracked_players) == 0: histogram then register, one
\* detection after the other; an exception ends the loop where it is.
RECURSIVE update_no_players(_, _, _)
update_no_players(st, detections, j) ==
    IF j > Len(detections) THEN st
    ELSE LET hist == HistOf[detections[j].bbox]
         IN  IF hist = InvalidRegion THEN [st EXCEPT !.raised = TRUE]
             ELSE update_no_players(
                      register(st, detections[j].centroid, hist, j),
                      detections, j + 1)

\* argmin that returns the last column holding the row minimum.
argmin_last(row) ==
    CHOOSE j \in 1..Len(row) :
        /\ \A k \in 1..Len(row) : row[j] <= row[k]
        /\ \A k \in (j + 1)..Len(row) : row[k] > row[j]

\* dist_matrix.argmin(axis=1)[i]: the first column holding the row minimum.
argmin(row) ==
    CHOOSE j \in 1..Len(row) :
        /\ \A k \in 1..Len(row) : row[j] <= row[k]
        /\ \A k \in 1..(j - 1) : row[k] > row[j]

\* The distance comparison with <= in place of <.
DistanceOk_inclusive(sqdist, max_distance) == sqdist <= max_distance * max_distance

\* dist_matrix[i, best] < max_distance, on the squared distance.
DistanceOk(sqdist, max_distance) == sqdist < max_distance * max_distance

\* The matching loop without "best_match_idx not in used_new_indices".
Accept_shared(sqdist, sim_above, best, used_new_indices, max_distance) ==
    /\ DistanceOk(sqdist, max_distance)
    /\ sim_above

\* The matching loop with the test of used_new_indices the wrong way round.
Accept_inverted(sqdist, sim_above, best, used_new_indices, max_distance) ==
    /\ DistanceOk(sqdist, max_distance)
    /\ sim_above
    /\ best \in used_new_indices

\* The three nested ifs of the matching loop.
Accept(sqdist, sim_above, best, used_new_indices, max_distance) ==
    /\ DistanceOk(sqdist, max_distance)
    /\ sim_above
    /\ best \notin used_new_indices

\* A match that forgets used_new_indices.add.
claim_forgotten(used_new_indices, best) == used_new_indices

\* used_new_indices.add(best_match_idx)
claim(used_new_indices, best) == used_new_indices \cup {best}

\* Step 4 without the subtraction of used_new_indices.
unmatched_all(n, used_new_indices) == 1..n

\* set(range(len(detections))) - used_new_indices
unmatched(n, used_new_indices) == (1..n) \ used_new_indices

\* A match that forgets "disappeared = 0".
Matched_no_reset(e, detection) ==
    [e EXCEPT !.centroid = detection.centroid]

\* A match that forgets "centroid = new_centroids[best_match_idx]".
Matched_keeps_centroid(e, detection) ==
    [e EXCEPT !.disappeared = 0]

\* What a successful match writes into the entry.
Matched(e, detection) ==
    [e EXCEPT !.centroid = detection.centroid, !.disappeared = 0]

\* ------------------------------------------------------------------------
\* The set of step 4: CPython's set, an open-addressing hash table.  An int
\* hashes to itself, so the iteration order (the slot order) of
\* "set(range(n)) - used_new_indices" is computed from the table.
\* Keys are the 0-based detection indices; -1 is an unused slot.
\* ------------------------------------------------------------------------
EmptyTable(size) ==
    [mask |-> size - 1, used |-> 0, slots |-> [i \in 0..(size - 1) |-> -1]]

\* The keys of a table in slot order: what iterating the set yields.
TableOrder(t) ==
    SelectSeq([i \in 1..(t.mask + 1) |-> t.slots[i - 1]], LAMBDA k : k # -1)

\* The probe sequence of set_insert_clean / set_add_entry: slot i and, when
\* they fit below the mask, the LINEAR_PROBES slots after it, then the next
\* i from the perturbed recurrence.
RECURSIVE FreeSlot(_, _, _, _)
FreeSlot(slots, mask, i, perturb) ==
    LET probes == IF i + LINEAR_PROBES <= mask THEN LINEAR_PROBES ELSE 0
        free == {k \in i..(i + probes) : slots[k] = -1}
        p == perturb \div (2 ^ PERTURB_SHIFT)
    IN  IF free # {} THEN CHOOSE k \in free : \A l \in free : k <= l
        ELSE FreeSlot(slots, mask, (i * 5 + 1 + p) % (mask + 1), p)

set_insert_clean(t, key) ==
    [t EXCEPT !.slots[FreeSlot(t.slots, t.mask, key % (t.mask + 1), key)] = key,
              !.used = @ + 1]

\* set_insert_clean of the keys, one after the other.
RECURSIVE insert_clean_all(_, _, _)
insert_clean_all(t, keys, k) ==
    IF k > Len(keys) THEN t
    ELSE insert_clean_all(set_insert_clean(t, keys[k]), keys, k + 1)

\* The table size set_table_resize picks: the first power of two above
\* minused, from PySet_MINSIZE.
RECURSIVE NewSize(_, _)
NewSize(newsize, minused) ==
    IF newsize <= minused THEN NewSize(2 * newsize, minused) ELSE newsize

set_table_resize(t, minused) ==
    insert_clean_all(EmptyTable(NewSize(PySet_MINSIZE, minused)), TableOrder(t), 1)

\* set_add_entry of a key the set does not hold: insert, then grow the table
\* once it is three fifths full.
set_add_entry(t, key) ==
    LET t1 == set_insert_clean(t, key)
    IN  IF t1.used * 5 < t1.mask * 3 THEN t1
        ELSE set_table_resize(t1, IF t1.used > 50000 THEN t1.used * 2
                                                      ELSE t1.used * 4)

\* set_add_entry of the keys, one after the other.
RECURSIVE add_all(_, _, _)
add_all(t, keys, k) ==
    IF k > Len(keys) THEN t
    ELSE add_all(set_add_entry(t, keys[k]), keys, k + 1)

\* set(range(n))
range_set(n) == add_all(EmptyTable(PySet_MINSIZE), [k \in 1..n |-> k - 1], 1)

\* set_copy: set_merge into a new set (resized first when so would fill
\* three fifths of it; the table is copied as it is when the sizes agree).
set_copy(so) ==
    LET t == IF so.used * 5 >= (PySet_MINSIZE - 1) * 3
             THEN EmptyTable(NewSize(PySet_MINSIZE, so.used * 2))
             ELSE EmptyTable(PySet_MINSIZE)
    IN  IF t.mask = so.mask THEN so
        ELSE insert_clean_all(t, TableOrder(so), 1)

\* set_discard of every key that is not to stay.
set_keep(t, keep) ==
    [t EXCEPT !.slots = [i \in 0..t.mask |-> IF @[i] \in keep THEN @[i] ELSE -1]]

\* The order with the highest index first.
SetOrder_descending(S, n, other_size) ==
    [k \in 1..Cardinality(S) |->
        CHOOSE x \in S : Cardinality({y \in S : y > x}) = k - 1]

\* The order in which "for idx in unmatched_new_indices" visits the set S
\* that set_difference made of set(range(n)) and a set of other_size
\* elements: a copy of so with the others discarded when so is more than
\* four times as large, else a new set filled in the order of so.
SetOrder(S, n, other_size) ==
    LET so == range_set(n)
        keep == {j - 1 : j \in S}
        result == IF n \div 4 > other_size
                  THEN set_keep(set_copy(so), keep)
                  ELSE add_all(EmptyTable(PySet_MINSIZE),
                               SelectSeq(TableOrder(so), LAMBDA k : k \in keep), 1)
        order == TableOrder(result)
    IN  [k \in 1..Len(order) |-> order[k] + 1]

\* Branch 3, the general case.
update_general(st0, detections, max_disappeared, max_distance) ==
    LET tracked_ids == Keys(st0.tracked_players)
        old_centroids == [i \in 1..Len(tracked_ids) |-> st0.tracked_players[i].centroid]
        old_histograms == [i \in 1..Len(tracked_ids) |-> st0.tracked_players[i].hist]
        new_centroids == [j \in 1..Len(detections) |-> detections[j].centroid]
        new_histograms == [j \in 1..Len(detections) |-> HistOf[detections[j].bbox]]
        dist_matrix == [i \in 1..Len(tracked_ids) |->
                          [j \in 1..Len(detections) |->
                              SqDist(old_centroids[i], new_centroids[j])]]
        matched_indices == [i \in 1..Len(tracked_ids) |-> argmin(dist_matrix[i])]
        RECURSIVE match_loop(_, _, _)
        match_loop(st, i, used_new_indices) ==
            IF i > Len(tracked_ids)
            THEN [st |-> st, used_new_indices |-> used_new_indices]
            ELSE LET player_id == tracked_ids[i]
                     best == matched_indices[i]
                 IN  IF Accept(dist_matrix[i][best],
                               hist_sim_above[old_histograms[i]][new_histograms[best]],
                               best, used_new_indices, max_distance)
                     THEN match_loop(
                              [st EXCEPT
                                  !.tracked_players =
                                      Put(@, player_id,
                                          Matched(Get(@, player_id), detections[best])),
                                  !.matched = Append(@, <<player_id, best>>)],
                              i + 1, claim(used_new_indices, best))
                     ELSE match_loop(disappear(st, player_id, max_disappeared),
                                     i + 1, used_new_indices)
        RECURSIVE register_new(_, _, _)
        register_new(st, order, k) ==
            IF k > Len(order) THEN st
            ELSE register_new(
                     register(st, detections[order[k]].centroid,
                              new_histograms[order[k]], order[k]),
                     order, k + 1)
    IN  IF \E j \in 1..Len(detections) : new_histograms[j] = InvalidRegion
        THEN [st0 EXCEPT !.raised = TRUE]
        ELSE LET m == match_loop(st0, 1, {})
                 unmatched_new_indices == unmatched(Len(detections), m.used_new_indices)
             IN  register_new(m.st,
                              SetOrder(unmatched_new_indices, Len(detections),
                                       Cardinality(m.used_new_indices)),
                              1)

update(tp, nid, detections, max_disappeared, max_distance) ==
    IF Len(detections) = 0
    THEN update_no_detections(Running(tp, nid), Keys(tp), 1, max_disappeared)
    ELSE IF Len(tp) = 0
    THEN update_no_players(Running(tp, nid), detections, 1)
    ELSE update_general(Running(tp, nid), detections, max_disappeared, max_distance)

\* ------------------------------------------------------------------------
\* State
\* ------------------------------------------------------------------------
VARIABLES
    pc,                \* where main is: "read_video" (before the source is
                       \* opened), "update" (at the top of the frame loop),
                       \* "write" (update returned), "done" (main returned),
                       \* or "raised" once an exception has left update
    cap,               \* the capture: "none", "unopened", "open", "released"
    out,               \* the writer: "none", "open", "released"
    output,            \* the output video: "none", "empty" (created, no frame
                       \* written), "frames" (out.write was called)
    video,             \* history: what the source did ("unknown", "readable",
                       \* "unreadable", "end_of_stream", "decode_failure")
    detections,        \* detections_for_tracker of the current frame
    tracked_players,   \* self.tracked_players, in insertion order
    next_player_id,    \* self.next_player_id
    max_disappeared,   \* self.max_disappeared
    max_distance,      \* self.max_distance
    call,              \* history: the update call of the current frame and its log
    issued,            \* history: every identity register handed out, in order
    misses,            \* history: per identity, the calls in a row that returned
                       \* without matching it
    feed               \* history: whether every frame so far had the same detections

vars == <<pc, cap, out, output, video, detections, tracked_players,
          next_player_id, max_disappeared, max_distance, call, issued, misses,
          feed>>

NoCall ==
    [branch |-> "none", pre |-> <<>>, pre_next |-> 0,
     registered |-> <<>>, matched |-> <<>>, deregistered |-> <<>>]

\* ReIDTracker.__init__, called by main before the frame loop
Init ==
    /\ pc = "read_video"
    /\ cap = "none"
    /\ out = "none"
    /\ output = "none"
    /\ video = "unknown"
    /\ detections = <<>>
    /\ tracked_players = <<>>
    /\ next_player_id = 0
    /\ \E a \in ConstructorArgs :
          /\ max_disappeared = a[1]
          /\ max_distance = a[2]
    /\ call = NoCall
    /\ issued = <<>>
    /\ misses = <<>>
    /\ feed = [frames |-> "none", detections |-> <<>>]

tracker == <<tracked_players, next_player_id, max_disappeared, max_distance>>

history == <<call, issued, misses, feed>>

\* read_video on a source that cannot be opened: main returns at once.
ReadVideoFails ==
    /\ pc = "read_video"
    /\ cap' = "unopened"
    /\ video' = "unreadable"
    /\ pc' = "done"
    /\ UNCHANGED <<out, output, detections, tracker, history>>

\* read_video on a source that opens, then save_video creates the writer.
ReadVideo ==
    /\ pc = "read_video"
    /\ cap' = "open"
    /\ video' = "readable"
    /\ out' = "open"
    /\ output' = "empty"
    /\ pc' = "update"
    /\ UNCHANGED <<detections, tracker, history>>

\* cap.read() returns success = False, at the end of the stream or because a
\* frame cannot be decoded: the loop ends and main releases capture and
\* writer.
ReadFrameFails ==
    /\ pc = "update"
    /\ \E cause \in {"end_of_stream", "decode_failure"} : video' = cause
    /\ cap' = "released"
    /\ out' = "released"
    /\ pc' = "done"
    /\ UNCHANGED <<output, detections, tracker, history>>

Firsts(log) == {log[k][1] : k \in 1..Len(log)}

Seconds(log) == {log[k][2] : k \in 1..Len(log)}

\* main: cap.read() succeeds, the detections d of the frame just read, and
\* tracked_players = tracker.update(detections_for_tracker, frame)
Update(branch, d) ==
    /\ \E r \in {update(tracked_players, next_player_id, d,
                        max_disappeared, max_distance)} :
          LET pre_ids == {tracked_players[i].id : i \in 1..Len(tracked_players)}
              new_ids == Firsts(r.registered)
          IN  /\ tracked_players' = r.tracked_players
              /\ next_player_id' = r.next_player_id
              /\ pc' = IF r.raised THEN "raised" ELSE "write"
              /\ call' = [branch |-> branch, pre |-> tracked_players,
                          pre_next |-> next_player_id,
                          registered |-> r.registered, matched |-> r.matched,
                          deregistered |-> r.deregistered]
              /\ issued' = issued \o [k \in 1..Len(r.registered) |-> r.registered[k][1]]
              /\ misses' =
                    [id \in DOMAIN misses \cup new_ids |->
                        IF id \in new_ids THEN 0
                        ELSE IF r.raised \/ id \notin pre_ids THEN misses[id]
                        ELSE IF id \in Firsts(r.matched) THEN 0
                        ELSE misses[id] + 1]
    /\ detections' = d
    /\ feed' = IF feed.frames = "none"
               THEN [frames |-> "same", detections |-> d]
               ELSE IF feed.frames = "same" /\ feed.detections = d
               THEN feed
               ELSE [frames |-> "mixed", detections |-> <<>>]
    /\ UNCHANGED <<max_disappeared, max_distance, cap, out, output, video>>

\* update, len(detections) == 0
UpdateNoDetections ==
    /\ pc = "update"
    /\ next_player_id < MaxIds
    /\ Update("no_detections", <<>>)

\* update, len(tracked_players) == 0
UpdateNoPlayers ==
    /\ pc = "update"
    /\ next_player_id < MaxIds
    /\ Len(tracked_players) = 0
    /\ \E d \in NonEmptyLists : Update("no_players", d)

\* update, the general case
UpdateGeneral ==
    /\ pc = "update"
    /\ next_player_id < MaxIds
    /\ Len(tracked_players) > 0
    /\ \E d \in NonEmptyLists : Update("general", d)

\* main: draw the returned tracks and write the frame; the frame's locals
\* are dropped with the next iteration.
WriteFrame ==
    /\ pc = "write"
    /\ pc' = "update"
    /\ detections' = <<>>
    /\ call' = NoCall
    /\ output' = "frames"
    /\ UNCHANGED <<cap, out, video, tracker, issued, misses, feed>>

Next ==
    \/ ReadVideoFails
    \/ ReadVideo
    \/ ReadFrameFails
    \/ UpdateNoDetections
    \/ UpdateNoPlayers
    \/ UpdateGeneral
    \/ WriteFrame

Spec == Init /\ [][Next]_vars

\* ------------------------------------------------------------------------
\* Crowded frames: a row of players 200 pixels apart, as many as a set's
\* first table has slots or more.  In the frame after the first, each
\* detection is where its player was or 100 pixels further on.
\* ------------------------------------------------------------------------
CrowdDetection(k, moved) ==
    [bbox |-> Red,
     centroid |-> <<100 + 200 * (k - 1) + (IF moved THEN 100 ELSE 0), 100>>]

CrowdSizes == PySet_MINSIZE..MaxCrowd

CrowdLists(n) ==
    {[k \in 1..n |-> CrowdDetection(k, m[k])] : m \in [1..n -> BOOLEAN]}

\* update on the first crowded frame: no live track yet.
UpdateCrowdFirst ==
    /\ pc = "update"
    /\ next_player_id = 0
    /\ \E n \in CrowdSizes :
          Update("no_players", [k \in 1..n |-> CrowdDetection(k, FALSE)])

\* update on a later crowded frame, as long as the tracks are those of the
\* first frame.
UpdateCrowdNext ==
    /\ pc = "update"
    /\ Len(tracked_players) > 0
    /\ next_player_id = Len(tracked_players)
    /\ \A i \in 1..Len(tracked_players) : tracked_players[i].disappeared = 0
    /\ \E d \in CrowdLists(Len(tracked_players)) : Update("general", d)

NextCrowd ==
    \/ ReadVideoFails
    \/ ReadVideo
    \/ ReadFrameFails
    \/ UpdateCrowdFirst
    \/ UpdateCrowdNext
    \/ WriteFrame

SpecCrowd == Init /\ [][NextCrowd]_vars

\* ------------------------------------------------------------------------
\* Vocabulary of the properties
\* ------------------------------------------------------------------------
Range(q) == {q[k] : k \in 1..Len(q)}

LiveIds == {tracked_players[i].id : i \in 1..Len(tracked_players)}

PreIds == {call.pre[i].id : i \in 1..Len(call.pre)}

\* update has returned for the current frame (no exception).
Returned == pc = "write"

\* The identities issued before the current call.
IssuedBefore == {issued[k] : k \in 1..(Len(issued) - Len(call.registered))}

\* For the i-th track of the table as the call found it: its nearest
\* detection (first of the nearest), and the two gates on it.
Candidate(i) ==
    argmin([j \in 1..Len(detections) |->
               SqDist(call.pre[i].centroid, detections[j].centroid)])

StrictlyNear(i) ==
    SqDist(call.pre[i].centroid, detections[Candidate(i)].centroid)
        < max_distance * max_distance

Similar(i) ==
    hist_sim_above[call.pre[i].hist][HistOf[detections[Candidate(i)].bbox]]

\* ------------------------------------------------------------------------
\* C1: no two live tracks share an identity, and an identity handed out once
\* is never handed out again, also after its track was deregistered and
\* after the table became empty.
\* ------------------------------------------------------------------------
C1_IdentityNeverReused ==
    /\ \A i, j \in 1..Len(tracked_players) :
          tracked_players[i].id = tracked_players[j].id => i = j
    /\ \A i, j \in 1..Len(issued) : issued[i] = issued[j] => i = j
    /\ LiveIds \subseteq Range(issued)
    /\ \A id \in Range(issued) : id < next_player_id
    /\ Returned =>
          Len(tracked_players) =
              Len(call.pre) - Len(call.deregistered) + Len(call.registered)

\* A cold start after every earlier track was deregistered.
C1_Witness ==
    /\ Returned
    /\ call.branch = "no_players"
    /\ call.pre_next > 0
    /\ Len(call.registered) > 0
    /\ \E id \in Range(issued) : id \notin LiveIds

\* ------------------------------------------------------------------------
\* C2: a track unmatched for max_disappeared calls in a row is still live;
\* it is removed in the call that makes it max_disappeared + 1, whether the
\* misses are frames without detections or frames whose detections it fails
\* to match.
\* ------------------------------------------------------------------------
C2_DisappearanceThreshold ==
    /\ \A id \in DOMAIN misses :
          /\ misses[id] <= max_disappeared => id \in LiveIds
          /\ misses[id] > max_disappeared =>
                id \notin LiveIds /\ misses[id] = max_disappeared + 1
    /\ Returned =>
          Range(call.deregistered) =
              {id \in PreIds : misses[id] = max_disappeared + 1}

\* A track that was still live after max_disappeared >= 1 misses is removed
\* at the next one, in a frame that had detections.
C2_Witness ==
    /\ Returned
    /\ max_disappeared >= 1
    /\ call.branch = "general"
    /\ \E i \in 1..Len(call.pre) :
          /\ call.pre[i].disappeared = max_disappeared
          /\ call.pre[i].id \in Range(call.deregistered)
          /\ misses[call.pre[i].id] = max_disappeared + 1

\* ------------------------------------------------------------------------
\* C3: within one update call a detection is matched to at most one track.
\* ------------------------------------------------------------------------
C3_Exclusivity ==
    Returned =>
        \A k, l \in 1..Len(call.matched) :
            call.matched[k][2] = call.matched[l][2] => k = l

\* A second track whose nearest detection passes both gates but was taken.
C3_Witness ==
    /\ Returned
    /\ call.branch = "general"
    /\ \E i, k \in 1..Len(call.pre) :
          /\ k < i
          /\ <<call.pre[k].id, Candidate(i)>> \in Range(call.matched)
          /\ StrictlyNear(i) /\ Similar(i)
          /\ call.pre[i].id \notin Firsts(call.matched)

\* ------------------------------------------------------------------------
\* C4: an accepted match replaces the track's centroid and its fingerprint
\* by the detection's, resets its counter to 0 and claims the detection.
\* ------------------------------------------------------------------------
C4_MatchStoresCentroidAndFingerprint ==
    Returned =>
        \A k \in 1..Len(call.matched) :
            LET id == call.matched[k][1]
                j == call.matched[k][2]
            IN  /\ HasKey(tracked_players, id)
                /\ Get(tracked_players, id).centroid = detections[j].centroid
                /\ Get(tracked_players, id).hist = HistOf[detections[j].bbox]
                /\ Get(tracked_players, id).disappeared = 0
                /\ j \notin Seconds(call.registered)

\* ------------------------------------------------------------------------
\* C5: in the general case a track's nearest detection is accepted exactly
\* when its distance is strictly below max_distance, the correlation of the
\* fingerprints is above 0.5, and no earlier track of the call took it.
\* With max_distance = 50, a track at (100,100) and one similar detection at
\* (110,100): same identity, now at (110,100), counter 0.
\* ------------------------------------------------------------------------
C5_AcceptIffThreeConditions ==
    (Returned /\ call.branch = "general") =>
        /\ \A i \in 1..Len(call.pre) :
              (call.pre[i].id \in Firsts(call.matched))
              <=> /\ StrictlyNear(i)
                  /\ Similar(i)
                  /\ \A k \in 1..(i - 1) :
                        <<call.pre[k].id, Candidate(i)>> \notin Range(call.matched)
        /\ \A i \in 1..Len(call.pre) :
              call.pre[i].id \in Firsts(call.matched) =>
                  <<call.pre[i].id, Candidate(i)>> \in Range(call.matched)
        /\ ( /\ max_distance = 50
             /\ Len(call.pre) = 1
             /\ call.pre[1].centroid = <<100, 100>>
             /\ Len(detections) = 1
             /\ detections[1].centroid = <<110, 100>>
             /\ Similar(1) )
           => /\ Len(tracked_players) = 1
              /\ tracked_players[1].id = call.pre[1].id
              /\ tracked_players[1].centroid = <<110, 100>>
              /\ tracked_players[1].disappeared = 0

\* Scenario A: the track at (100,100) follows the detection at (110,100).
C5_Witness ==
    /\ Returned
    /\ call.branch = "general"
    /\ max_distance = 50
    /\ Len(call.pre) = 1
    /\ call.pre[1].centroid = <<100, 100>>
    /\ Len(detections) = 1
    /\ detections[1].centroid = <<110, 100>>
    /\ Similar(1)
    /\ call.matched = <<(<<call.pre[1].id, 1>>)>>
    /\ tracked_players[1].centroid = <<110, 100>>

\* ------------------------------------------------------------------------
\* C6: the same single detection in every frame, max_distance > 0: the
\* identity of the first call stays the only live one, its counter is 0
\* after every call, and next_player_id stays where the first call left it.
\* ------------------------------------------------------------------------
C6_SameDetectionKeepsIdentity ==
    ( /\ feed.frames = "same"
      /\ Len(feed.detections) = 1
      /\ HistOf[feed.detections[1].bbox] # InvalidRegion
      /\ max_distance > 0 )
    => /\ Len(tracked_players) = 1
       /\ tracked_players[1].id = 0
       /\ tracked_players[1].disappeared = 0
       /\ tracked_players[1].centroid = feed.detections[1].centroid
       /\ issued = <<0>>
       /\ next_player_id = 1

\* The detection has come back and was matched to the track it created.
C6_Witness ==
    /\ feed.frames = "same"
    /\ Len(feed.detections) = 1
    /\ max_distance > 0
    /\ Returned
    /\ call.branch = "general"
    /\ call.matched = <<(<<0, 1>>)>>
    /\ next_player_id = 1

\* ------------------------------------------------------------------------
\* C7: update with no live track and k >= 1 detections returns k tracks with
\* k distinct identities never used before (also when the table is empty
\* because earlier tracks were removed), each with counter 0 and the
\* centroid of its detection.
\* ------------------------------------------------------------------------
C7_ColdStartRegistersAll ==
    (Returned /\ call.branch = "no_players") =>
        /\ Len(tracked_players) = Len(detections)
        /\ \A i, j \in 1..Len(tracked_players) :
              tracked_players[i].id = tracked_players[j].id => i = j
        /\ \A i \in 1..Len(tracked_players) :
              /\ tracked_players[i].id \notin IssuedBefore
              /\ tracked_players[i].disappeared = 0
              /\ tracked_players[i].centroid = detections[i].centroid

\* Two detections on a table that earlier removals had emptied.
C7_Witness ==
    /\ Returned
    /\ call.branch = "no_players"
    /\ Len(detections) = 2
    /\ Len(tracked_players) = 2
    /\ IssuedBefore # {}

\* ------------------------------------------------------------------------
\* C8: in the general case every detection no track accepted is registered
\* as a new track with a fresh identity and counter 0, and no accepted
\* detection is registered.  With max_distance = 50, a track at (100,100) and
\* one detection at (200,100): no match, the track's counter becomes 1, the
\* detection gets a new identity.
\* ------------------------------------------------------------------------
C8_UnclaimedRegistered ==
    (Returned /\ call.branch = "general") =>
        /\ Seconds(call.registered) = (1..Len(detections)) \ Seconds(call.matched)
        /\ Len(call.registered) = Cardinality(Seconds(call.registered))
        /\ \A k \in 1..Len(call.registered) :
              LET id == call.registered[k][1]
                  j == call.registered[k][2]
              IN  /\ id \notin IssuedBefore
                  /\ id \notin PreIds
                  /\ \A l \in 1..Len(call.registered) :
                        call.registered[l][1] = id => l = k
                  /\ HasKey(tracked_players, id)
                  /\ Get(tracked_players, id).disappeared = 0
                  /\ Get(tracked_players, id).centroid = detections[j].centroid
        /\ ( /\ max_distance = 50
             /\ max_disappeared >= 1
             /\ Len(call.pre) = 1
             /\ call.pre[1].centroid = <<100, 100>>
             /\ call.pre[1].disappeared = 0
             /\ Len(detections) = 1
             /\ detections[1].centroid = <<200, 100>> )
           => /\ call.matched = <<>>
              /\ Len(tracked_players) = 2
              /\ tracked_players[1] = [call.pre[1] EXCEPT !.disappeared = 1]
              /\ tracked_players[2].id # call.pre[1].id
              /\ tracked_players[2].id \notin IssuedBefore
              /\ tracked_players[2].centroid = <<200, 100>>
              /\ tracked_players[2].disappeared = 0

\* Scenario B: the far detection is registered next to the aged track.
C8_Witness ==
    /\ Returned
    /\ call.branch = "general"
    /\ max_distance = 50
    /\ Len(call.pre) = 1
    /\ call.pre[1].centroid = <<100, 100>>
    /\ call.pre[1].disappeared = 0
    /\ Len(detections) = 1
    /\ detections[1].centroid = <<200, 100>>
    /\ Len(call.registered) = 1
    /\ Len(tracked_players) = 2
    /\ tracked_players[1].disappeared = 1

\* ------------------------------------------------------------------------
\* C9: two live tracks within max_distance of a single detection, both
\* passing the appearance gate: exactly one claims it, the other is
\* unmatched (counter incremented), and no identity is registered for it.
\* ------------------------------------------------------------------------
Contenders == {i \in 1..Len(call.pre) : StrictlyNear(i) /\ Similar(i)}

C9_OneClaimsContestedDetection ==
    ( /\ Returned
      /\ call.branch = "general"
      /\ Len(detections) = 1
      /\ Cardinality(Contenders) >= 2 )
    => /\ Cardinality({i \in Contenders :
                          call.pre[i].id \in Firsts(call.matched)}) = 1
       /\ \A i \in Contenders :
             call.pre[i].id \notin Firsts(call.matched) =>
                 IF HasKey(tracked_players, call.pre[i].id)
                 THEN Get(tracked_players, call.pre[i].id).disappeared
                         = call.pre[i].disappeared + 1
                 ELSE call.pre[i].disappeared + 1 > max_disappeared
       /\ call.registered = <<>>
       /\ next_player_id = call.pre_next

\* Two contenders: one took the detection, the other is still live, aged.
C9_Witness ==
    /\ Returned
    /\ call.branch = "general"
    /\ Len(detections) = 1
    /\ Cardinality(Contenders) = 2
    /\ Len(call.matched) = 1
    /\ \E i \in Contenders :
          /\ call.pre[i].id \notin Firsts(call.matched)
          /\ HasKey(tracked_players, call.pre[i].id)

\* ------------------------------------------------------------------------
\* C10: every track live before an update call ends it matched with counter
\* 0, or unmatched with its counter one higher and still live (only when
\* that is <= max_disappeared), or unmatched and removed (only when that is
\* > max_disappeared).
\* ------------------------------------------------------------------------
C10_ThreeOutcomes ==
    Returned =>
        \A i \in 1..Len(call.pre) :
            LET e == call.pre[i]
                matched == e.id \in Firsts(call.matched)
                live == HasKey(tracked_players, e.id)
            IN  \/ /\ matched
                   /\ live
                   /\ Get(tracked_players, e.id).disappeared = 0
                \/ /\ ~matched
                   /\ live
                   /\ Get(tracked_players, e.id).disappeared = e.disappeared + 1
                   /\ e.disappeared + 1 <= max_disappeared
                \/ /\ ~matched
                   /\ ~live
                   /\ e.disappeared + 1 > max_disappeared

\* One call in which a track is matched after a miss and another, missed
\* once more, is removed.
C10_Witness ==
    /\ Returned
    /\ \E a, b \in 1..Len(call.pre) :
          /\ call.pre[a].id \in Firsts(call.matched)
          /\ call.pre[a].disappeared > 0
          /\ Get(tracked_players, call.pre[a].id).disappeared = 0
          /\ call.pre[b].id \notin Firsts(call.matched)
          /\ call.pre[b].disappeared > 0
          /\ call.pre[b].id \notin LiveIds

\* ------------------------------------------------------------------------
\* C11: update with an empty detection list increments the counter of every
\* live track, removes exactly the tracks whose counter then exceeds
\* max_disappeared, registers nothing, and leaves next_player_id and the
\* centroid and fingerprint of every surviving track as they were; what it
\* returns is the table of the survivors.
\* ------------------------------------------------------------------------
C11_NoDetectionsAgesEveryTrack ==
    (Returned /\ call.branch = "no_detections") =>
        /\ tracked_players =
              SelectSeq([i \in 1..Len(call.pre) |->
                            [call.pre[i] EXCEPT !.disappeared = @ + 1]],
                        LAMBDA e : e.disappeared <= max_disappeared)
        /\ Range(call.deregistered) =
              {call.pre[i].id : i \in {k \in 1..Len(call.pre) :
                                          call.pre[k].disappeared + 1 > max_disappeared}}
        /\ call.registered = <<>>
        /\ call.matched = <<>>
        /\ next_player_id = call.pre_next

\* A frame without detections that one track survives and another does not.
C11_Witness ==
    /\ Returned
    /\ call.branch = "no_detections"
    /\ Len(call.pre) = 2
    /\ Len(tracked_players) = 1
    /\ Len(call.deregistered) = 1
    /\ tracked_players[1].disappeared = 1

\* ------------------------------------------------------------------------
\* C12: a detection whose box is degenerate makes the fingerprint extraction
\* fail, and is dropped before update sees it: no list handed to update
\* holds one, none is matched or registered, and no track carries an
\* all-zero fingerprint in its place.
\* ------------------------------------------------------------------------
C12_DegenerateDetectionDropped ==
    /\ calculate_histogram(Empty) = InvalidRegion
    /\ \A j \in 1..Len(detections) :
          calculate_histogram(detections[j].bbox) # InvalidRegion
    /\ \A j \in Seconds(call.matched) \cup Seconds(call.registered) :
          calculate_histogram(detections[j].bbox) # InvalidRegion
    /\ \A i \in 1..Len(tracked_players) :
          tracked_players[i].hist # [b \in 1..HistBins |-> 0]

\* ------------------------------------------------------------------------
\* C13: when the video source cannot be opened or a frame cannot be decoded,
\* the run ends with no output frame written and with capture and writer
\* released if they were opened.
\* ------------------------------------------------------------------------
C13_FailedSourceLeavesNoOutput ==
    (pc = "done" /\ video \in {"unreadable", "decode_failure"}) =>
        /\ output # "frames"
        /\ cap # "open"
        /\ out # "open"

\* ------------------------------------------------------------------------
\* C14: a configuration that can be selected at construction gives the
\* spatial-only engine: on the table and the detections of any call it
\* accepts every candidate that is within max_distance and not claimed by
\* an earlier track, whatever the correlation of the fingerprints.  The
\* constructor takes max_disappeared and max_distance, so the configurations
\* are the pairs of ConstructorArgs (max_distance = 0 accepts nothing and is
\* no spatial gate).
\* ------------------------------------------------------------------------
C14_SpatialOnlyConfiguration ==
    (Returned /\ call.branch = "general") =>
        \E a \in ConstructorArgs :
            /\ a[2] > 0
            /\ \E r \in {update(call.pre, call.pre_next, detections, a[1], a[2])} :
                  \A i \in 1..Len(call.pre) :
                      ( /\ SqDist(call.pre[i].centroid,
                                  detections[Candidate(i)].centroid) < a[2] * a[2]
                        /\ \A k \in 1..(i - 1) :
                              <<call.pre[k].id, Candidate(i)>> \notin Range(r.matched) )
                      => <<call.pre[i].id, Candidate(i)>> \in Range(r.matched)

\* ------------------------------------------------------------------------
\* C15: in the general case a track considers one detection only, the one
\* at minimum Euclidean distance from its stored centroid, the lowest index
\* among equals.  A track is matched to no other detection; when that
\* candidate is too far, not similar enough, or taken by an earlier track,
\* the track ends the call unmatched, even if another detection is within
\* max_distance and unclaimed.
\* ------------------------------------------------------------------------
Dist(i, j) == SqDist(call.pre[i].centroid, detections[j].centroid)

IsNearest(i, j) ==
    /\ \A k \in 1..Len(detections) : Dist(i, j) <= Dist(i, k)
    /\ \A k \in 1..(j - 1) : Dist(i, k) > Dist(i, j)

Rejected(i, j) ==
    \/ ~(Dist(i, j) < max_distance * max_distance)
    \/ ~hist_sim_above[call.pre[i].hist][HistOf[detections[j].bbox]]
    \/ \E k \in 1..(i - 1) : <<call.pre[k].id, j>> \in Range(call.matched)

C15_OnlyNearestConsidered ==
    (Returned /\ call.branch = "general") =>
        \A i \in 1..Len(call.pre) :
            /\ \A j \in 1..Len(detections) :
                  <<call.pre[i].id, j>> \in Range(call.matched) => IsNearest(i, j)
            /\ \A j \in 1..Len(detections) :
                  (IsNearest(i, j) /\ Rejected(i, j)) =>
                      /\ call.pre[i].id \notin Firsts(call.matched)
                      /\ IF HasKey(tracked_players, call.pre[i].id)
                         THEN Get(tracked_players, call.pre[i].id) =
                                 [call.pre[i] EXCEPT !.disappeared = @ + 1]
                         ELSE call.pre[i].id \in Range(call.deregistered)

\* The nearest of two equally distant detections is the first and is not
\* similar enough; the second is within max_distance, similar and unclaimed,
\* and the track is left unmatched while the second is registered.
C15_Witness ==
    /\ Returned
    /\ call.branch = "general"
    /\ \E i \in 1..Len(call.pre) : \E j, n \in 1..Len(detections) :
          /\ IsNearest(i, j)
          /\ n > j
          /\ Dist(i, n) = Dist(i, j)
          /\ Dist(i, n) < max_distance * max_distance
          /\ ~hist_sim_above[call.pre[i].hist][HistOf[detections[j].bbox]]
          /\ hist_sim_above[call.pre[i].hist][HistOf[detections[n].bbox]]
          /\ n \notin Seconds(call.matched)
          /\ n \in Seconds(call.registered)
          /\ call.pre[i].id \notin Firsts(call.matched)

\* ------------------------------------------------------------------------
\* C16: the live tracks are processed in ascending identity order, and row
\* i of the matrices is the row of the i-th identity processed.  So when
\* several tracks have the same nearest detection and pass both gates on
\* it, the one with the lowest identity gets it, also when a track with a
\* higher identity is strictly closer.
\* ------------------------------------------------------------------------
\* The tracks whose nearest detection is j and that pass both gates on it.
Passing(j) ==
    {i \in 1..Len(call.pre) :
        /\ IsNearest(i, j)
        /\ Dist(i, j) < max_distance * max_distance
        /\ hist_sim_above[call.pre[i].hist][HistOf[detections[j].bbox]]}

C16_LowestIdentityClaimsFirst ==
    /\ \A i, j \in 1..Len(tracked_players) :
          i < j => tracked_players[i].id < tracked_players[j].id
    /\ (Returned /\ call.branch = "general") =>
          /\ \A k, l \in 1..Len(call.matched) :
                k < l => call.matched[k][1] < call.matched[l][1]
          /\ \A i \in 1..Len(call.pre) : \A j \in 1..Len(detections) :
                <<call.pre[i].id, j>> \in Range(call.matched) => i \in Passing(j)
          /\ \A j \in 1..Len(detections) :
                Passing(j) # {} =>
                    \E i \in Passing(j) :
                        /\ \A k \in Passing(j) : call.pre[i].id <= call.pre[k].id
                        /\ <<call.pre[i].id, j>> \in Range(call.matched)
                        /\ \A k \in Passing(j) \ {i} :
                              call.pre[k].id \notin Firsts(call.matched)

\* Two tracks pass both gates on the same detection, the one with the higher
\* identity is strictly closer, and the one with the lower identity has it.
C16_Witness ==
    /\ Returned
    /\ call.branch = "general"
    /\ \E j \in 1..Len(detections) : \E i, k \in Passing(j) :
          /\ call.pre[i].id < call.pre[k].id
          /\ Dist(k, j) < Dist(i, j)
          /\ <<call.pre[i].id, j>> \in Range(call.matched)
          /\ call.pre[k].id \notin Firsts(call.matched)

\* ------------------------------------------------------------------------
\* C17: whenever update has returned, and between calls, the disappearance
\* counter of every live track is in 0..max_disappeared; a track whose
\* counter is above max_disappeared is never in the table.
\* ------------------------------------------------------------------------
C17_CounterWithinThreshold ==
    pc \in {"update", "write", "done"} =>
        \A i \in 1..Len(tracked_players) :
            /\ tracked_players[i].disappeared >= 0
            /\ tracked_players[i].disappeared <= max_disappeared

\* A call has returned a track that sits exactly at the threshold, next to
\* the removal of one that went over it.
C17_Witness ==
    /\ Returned
    /\ max_disappeared >= 1
    /\ call.deregistered # <<>>
    /\ \E i \in 1..Len(tracked_players) :
          tracked_players[i].disappeared = max_disappeared

\* ------------------------------------------------------------------------
\* C18: after an update call with M >= 1 detections that returns, exactly M
\* live tracks have counter 0 and their centroids are, with multiplicity,
\* the centroids of the M detections: every detection is claimed by exactly
\* one track or registered as exactly one new track.
\* ------------------------------------------------------------------------
Fresh == {i \in 1..Len(tracked_players) : tracked_players[i].disappeared = 0}

C18_EveryDetectionOneTrack ==
    (Returned /\ Len(detections) >= 1) =>
        /\ Cardinality(Fresh) = Len(detections)
        /\ \A c \in {detections[j].centroid : j \in 1..Len(detections)} :
              Cardinality({i \in Fresh : tracked_players[i].centroid = c}) =
                  Cardinality({j \in 1..Len(detections) : detections[j].centroid = c})
        /\ \A j \in 1..Len(detections) :
              Cardinality({k \in 1..Len(call.matched) : call.matched[k][2] = j}) +
              Cardinality({k \in 1..Len(call.registered) : call.registered[k][2] = j})
                  = 1

\* Two detections at one centroid, one claimed by a track and one
\* registered, while another live track is aged and stays.
C18_Witness ==
    /\ Returned
    /\ call.branch = "general"
    /\ Len(detections) = 2
    /\ detections[1].centroid = detections[2].centroid
    /\ Len(call.matched) = 1
    /\ Len(call.registered) = 1
    /\ Len(tracked_players) = 3
    /\ Cardinality(Fresh) = 2

\* ------------------------------------------------------------------------
\* C19: when the fingerprint extraction raises for a detection of an update
\* call, the track table and next_player_id after the failed call are what
\* they were before it, in the branch without live tracks and in the
\* general branch alike.
\* ------------------------------------------------------------------------
C19_FailedUpdateChangesNothing ==
    pc = "raised" =>
        /\ tracked_players = call.pre
        /\ next_player_id = call.pre_next

\* ------------------------------------------------------------------------
\* C20: the engine is deterministic (two engines constructed alike and fed
\* the same detection lists are two evaluations of the same update on the
\* same table, and hold the same table and next_player_id after every
\* call), and in particular the detections that no track claimed in a call
\* get their new identities in ascending order of detection index.
\* ------------------------------------------------------------------------
C20_NewIdentitiesInIndexOrder ==
    Returned =>
        \A k, l \in 1..Len(call.registered) :
            k < l => /\ call.registered[k][1] < call.registered[l][1]
                     /\ call.registered[k][2] < call.registered[l][2]

\* C20 as amended: the new identities follow the detection indices in the
\* branch without live tracks, and in the general branch when the call has
\* at most PySet_MINSIZE detections.
C20_IndexOrderInSmallCalls ==
    (Returned /\ (call.branch = "no_players" \/ Len(detections) <= PySet_MINSIZE)) =>
        \A k, l \in 1..Len(call.registered) :
            k < l => /\ call.registered[k][1] < call.registered[l][1]
                     /\ call.registered[k][2] < call.registered[l][2]

\* PySet_MINSIZE detections, of which several are claimed and several, the
\* last among them, are registered.
C20_Witness ==
    /\ Returned
    /\ call.branch = "general"
    /\ Len(detections) = PySet_MINSIZE
    /\ Len(call.matched) >= 2
    /\ Len(call.registered) >= 2
    /\ PySet_MINSIZE \in Seconds(call.registered)

====
